---- MODULE Spec2Model ----
(***************************************************************************)
(* LIMIT - Proof of Financial Restraint (demo backend).                    *)
(*                                                                         *)
(* The model covers backend/app: the module-level data of mock_data.py,    *)
(* evaluate_discipline of logic.py, generate_proof of proof.py and the     *)
(* three request handlers of main.py.  Every handler is synchronous and    *)
(* runs to completion, so each is one action; `log` records the responses  *)
(* the handlers have returned so far.                                      *)
(*                                                                         *)
(* Strings that the code builds character by character (proof_id) are      *)
(* sequences of one-character strings.                                     *)
(***************************************************************************)
EXTENDS Integers, Sequences, FiniteSets

VARIABLES
    transactions,   \* mock_data.transactions, the module-level list
    config,         \* the four module-level discipline parameters
    log             \* responses returned so far, oldest first

vars == <<transactions, config, log>>

----------------------------------------------------------------------------
(* Bounds of the model *)

MaxLen == 2        \* longest transaction list fed to the evaluator
MaxRequests == 2   \* requests served in one behaviour
MaxRand == 2       \* the random source yields samples 0..MaxRand
MaxClock == 2      \* the clock reads 0..MaxClock microseconds past 00:00:00.999999

----------------------------------------------------------------------------
(* mock_data.py *)

USER_BUDGET == 20000
SAVINGS_TARGET == 5000
PREVIOUS_MONTH_IMPULSE_SPEND == 4000
IMPULSE_CATEGORIES == {"food", "shopping", "travel"}

fixture ==
    << [amount |-> 3000, category |-> "food",     date |-> "2026-01-05"],
       [amount |-> 1500, category |-> "shopping", date |-> "2026-01-07"],
       [amount |-> 2000, category |-> "travel",   date |-> "2026-01-10"],
       [amount |-> 5000, category |-> "savings",  date |-> "2026-01-12"],
       [amount |-> 1200, category |-> "food",     date |-> "2026-01-15"] >>

mock_data ==
    [USER_BUDGET                  |-> USER_BUDGET,
     SAVINGS_TARGET               |-> SAVINGS_TARGET,
     PREVIOUS_MONTH_IMPULSE_SPEND |-> PREVIOUS_MONTH_IMPULSE_SPEND,
     IMPULSE_CATEGORIES           |-> IMPULSE_CATEGORIES]

----------------------------------------------------------------------------
(* Inputs of the evaluator: transaction lists other than the fixture *)

Amounts == {1, 4000, 5000, 20000}
Categories == {"food", "shopping", "travel", "savings", "rent"}
Dates == {"2026-01-05"}

Transaction == [amount : Amounts, category : Categories, date : Dates]

TransactionLists == UNION {[1..n -> Transaction] : n \in 0..MaxLen}

----------------------------------------------------------------------------
(* logic.py *)

\* accumulate with `if` where the code has `else`: savings also count as spend
accumulate_no_else(acc, tx) ==
    LET split == IF tx.category = "savings"
                 THEN [acc EXCEPT !.total_savings = @ + tx.amount,
                                  !.total_spend = @ + tx.amount]
                 ELSE [acc EXCEPT !.total_spend = @ + tx.amount]
    IN  IF tx.category \in config.IMPULSE_CATEGORIES
        THEN [split EXCEPT !.impulse_spend = @ + tx.amount]
        ELSE split

\* the body of the for loop: one transaction added to the running sums
accumulate(acc, tx) ==
    LET split == IF tx.category = "savings"
                 THEN [acc EXCEPT !.total_savings = @ + tx.amount]
                 ELSE [acc EXCEPT !.total_spend = @ + tx.amount]
    IN  IF tx.category \in config.IMPULSE_CATEGORIES
        THEN [split EXCEPT !.impulse_spend = @ + tx.amount]
        ELSE split

RECURSIVE for_tx(_, _, _)
\* for_tx stopping one transaction early
for_tx_short(txs, i, acc) ==
    IF i >= Len(txs) THEN acc
    ELSE for_tx(txs, i + 1, accumulate(acc, txs[i]))

for_tx(txs, i, acc) ==
    IF i > Len(txs) THEN acc
    ELSE for_tx(txs, i + 1, accumulate(acc, txs[i]))

\* budget_ok with an exclusive boundary
budget_ok_strict(total_spend) == total_spend < config.USER_BUDGET

budget_ok(total_spend) == total_spend <= config.USER_BUDGET

\* impulse_ok with an inclusive boundary
impulse_ok_inclusive(impulse_spend) ==
    impulse_spend <= config.PREVIOUS_MONTH_IMPULSE_SPEND

impulse_ok(impulse_spend) == impulse_spend < config.PREVIOUS_MONTH_IMPULSE_SPEND

\* savings_ok with an exclusive boundary
savings_ok_strict(total_savings) == total_savings > config.SAVINGS_TARGET

savings_ok(total_savings) == total_savings >= config.SAVINGS_TARGET

\* discipline_passed that leaves the impulse check out
discipline_passed_no_impulse(b, i, s) == b /\ s

discipline_passed(b, i, s) == b /\ i /\ s

evaluate_discipline(txs) ==
    LET sums == for_tx(txs, 1,
                       [total_spend |-> 0, impulse_spend |-> 0, total_savings |-> 0])
        b == budget_ok(sums.total_spend)
        i == impulse_ok(sums.impulse_spend)
        s == savings_ok(sums.total_savings)
    IN  [budget_ok         |-> b,
         impulse_ok        |-> i,
         savings_ok        |-> s,
         discipline_passed |-> discipline_passed(b, i, s),
         debug             |-> sums]

----------------------------------------------------------------------------
(* proof.py *)

\* os.urandom(16) as read by uuid.uuid4: sample k of the random source
urandom(k) == [i \in 1..16 |-> (k * 113 + i * 59 + 10) % 256]

\* uuid.uuid4(): 16 random bytes with the version and variant bits forced
uuid4(k) ==
    [i \in 1..16 |->
        LET b == urandom(k)[i]
        IN  IF i = 7 THEN (b % 16) + 64
            ELSE IF i = 9 THEN (b % 64) + 128
            ELSE b]

HexDigits ==
    <<"0", "1", "2", "3", "4", "5", "6", "7", "8", "9", "a", "b", "c", "d", "e", "f">>

\* UUID.hex: two lowercase hexadecimal digits for each byte, high nibble first
hex(bytes) ==
    [j \in 1..(2 * Len(bytes)) |->
        LET b == bytes[(j + 1) \div 2]
        IN  HexDigits[(IF j % 2 = 1 THEN b \div 16 ELSE b % 16) + 1]]

\* upper_char that does nothing: the identifier keeps hex's lowercase digits
upper_char_noop(c) == c

\* str.upper() on one character
upper_char(c) ==
    CASE c = "a" -> "A" [] c = "b" -> "B" [] c = "c" -> "C"
      [] c = "d" -> "D" [] c = "e" -> "E" [] c = "f" -> "F"
      [] OTHER -> c

upper(s) == [j \in 1..Len(s) |-> upper_char(s[j])]

\* f"0x{uuid.uuid4().hex[:8].upper()}"
proof_id(k) == <<"0", "x">> \o upper(SubSeq(hex(uuid4(k)), 1, 8))

\* datetime.utcnow(): the wall clock, `now` microseconds after 00:00:00.999999
utcnow(now) ==
    LET t == 999999 + now
    IN  [second |-> t \div 1000000, microsecond |-> t % 1000000]

\* isoformat with the fraction always left out
isoformat_seconds(dt) == <<dt.second>>

\* datetime.isoformat(): the fraction is left out when microsecond is 0
isoformat(dt) ==
    IF dt.microsecond = 0 THEN <<dt.second>> ELSE <<dt.second, dt.microsecond>>

\* generate_proof echoing the budget check instead of the aggregate flag
generate_proof_budget(discipline_result, k, now) ==
    [proof_id         |-> proof_id(k),
     discipline_valid |-> discipline_result.budget_ok,
     timestamp        |-> isoformat(utcnow(now))]

generate_proof(discipline_result, k, now) ==
    [proof_id         |-> proof_id(k),
     discipline_valid |-> discipline_result.discipline_passed,
     timestamp        |-> isoformat(utcnow(now))]

----------------------------------------------------------------------------
(* main.py: the request handlers, each one action.  `env` notes what the   *)
(* handler read from the random source and the clock while it ran.         *)

respond(endpoint, body, env) ==
    log' = Append(log, [endpoint |-> endpoint, body |-> body, env |-> env])

get_transactions ==
    /\ respond("/transactions", [transactions |-> transactions], <<>>)
    /\ UNCHANGED <<transactions, config>>

\* evaluate that consumes the module-level list while it serves the request
evaluate_draining ==
    /\ respond("/evaluate-discipline", evaluate_discipline(transactions), <<>>)
    /\ transactions' = <<>>
    /\ UNCHANGED config

evaluate ==
    /\ respond("/evaluate-discipline", evaluate_discipline(transactions), <<>>)
    /\ UNCHANGED <<transactions, config>>

generate ==
    /\ \E k \in 0..MaxRand : \E now \in 0..MaxClock :
          LET discipline_result == evaluate_discipline(transactions)
          IN  respond("/generate-proof",
                      generate_proof(discipline_result, k, now),
                      <<k, now>>)
    /\ UNCHANGED <<transactions, config>>

----------------------------------------------------------------------------
(* Specifications *)

\* the service as shipped: the data is the hardcoded fixture
Init ==
    /\ transactions = fixture
    /\ config = mock_data
    /\ log = <<>>

\* any request, MaxRequests of them in a behaviour
Next ==
    \/ Len(log) < MaxRequests /\ get_transactions
    \/ Len(log) < MaxRequests /\ evaluate
    \/ Len(log) < MaxRequests /\ generate

Spec == Init /\ [][Next]_vars

\* the same handlers over any bounded transaction list: one evaluate-discipline
\* request, then one generate-proof request
AnyInit ==
    /\ transactions \in TransactionLists
    /\ config = mock_data
    /\ log = <<>>

AnyNext ==
    \/ log = <<>> /\ evaluate
    \/ Len(log) = 1 /\ generate

AnySpec == AnyInit /\ [][AnyNext]_vars

----------------------------------------------------------------------------
(* Responses in the log *)

Evaluations == {i \in DOMAIN log : log[i].endpoint = "/evaluate-discipline"}
Proofs == {i \in DOMAIN log : log[i].endpoint = "/generate-proof"}

TypeOK ==
    /\ Len(log) <= MaxRequests
    /\ \A i \in DOMAIN log :
          log[i].endpoint \in {"/transactions", "/evaluate-discipline", "/generate-proof"}

\* sum of the amounts of the transactions at the positions in S
RECURSIVE AmountOf(_)
AmountOf(S) ==
    IF S = {} THEN 0
    ELSE LET i == CHOOSE x \in S : TRUE
         IN  transactions[i].amount + AmountOf(S \ {i})

SavingsAt == {i \in DOMAIN transactions : transactions[i].category = "savings"}

UpperHexDigits ==
    {"0", "1", "2", "3", "4", "5", "6", "7", "8", "9", "A", "B", "C", "D", "E", "F"}

----------------------------------------------------------------------------
(* Claims *)

\* C1: every result evaluate_discipline returns has discipline_passed equal
\* to the conjunction of budget_ok, impulse_ok and savings_ok of that same
\* result.
C1_PassedIsConjunction ==
    \A i \in Evaluations :
        LET r == log[i].body
        IN  r.discipline_passed = (r.budget_ok /\ r.impulse_ok /\ r.savings_ok)

\* a result with two checks passing and the impulse check failing
C1_Witness ==
    \E i \in Evaluations :
        LET r == log[i].body
        IN  r.budget_ok /\ r.savings_ok /\ ~r.impulse_ok /\ ~r.discipline_passed

\* C2: total_spend + total_savings is the sum of all amounts; a transaction
\* counts in total_savings when its category is "savings" and in total_spend
\* otherwise.
C2_Partition ==
    \A i \in Evaluations :
        LET d == log[i].body.debug
        IN  /\ d.total_spend + d.total_savings = AmountOf(DOMAIN transactions)
            /\ d.total_savings = AmountOf(SavingsAt)
            /\ d.total_spend = AmountOf(DOMAIN transactions \ SavingsAt)

\* an evaluation of a list holding a savings and a non-savings transaction
C2_Witness ==
    /\ Evaluations # {}
    /\ SavingsAt # {}
    /\ SavingsAt # DOMAIN transactions

\* C3: impulse_ok is true exactly when impulse_spend is strictly below the
\* prior impulse spend; at exactly the prior impulse spend impulse_ok and
\* discipline_passed are both false.
C3_ImpulseStrict ==
    \A i \in Evaluations :
        LET r == log[i].body
        IN  /\ r.impulse_ok = (r.debug.impulse_spend < PREVIOUS_MONTH_IMPULSE_SPEND)
            /\ r.debug.impulse_spend = PREVIOUS_MONTH_IMPULSE_SPEND
                  => ~r.impulse_ok /\ ~r.discipline_passed

\* impulse spend exactly at the prior impulse spend, the other checks passing
C3_Witness ==
    \E i \in Evaluations :
        LET r == log[i].body
        IN  /\ r.debug.impulse_spend = PREVIOUS_MONTH_IMPULSE_SPEND
            /\ r.budget_ok /\ r.savings_ok

\* C4: budget_ok is true exactly when total_spend is at most the budget
\* ceiling: true at the ceiling, false one unit over it.
C4_BudgetInclusive ==
    \A i \in Evaluations :
        LET r == log[i].body
        IN  /\ r.budget_ok = (r.debug.total_spend <= USER_BUDGET)
            /\ r.debug.total_spend = USER_BUDGET => r.budget_ok
            /\ r.debug.total_spend = USER_BUDGET + 1 => ~r.budget_ok

\* total spend exactly at the budget ceiling
C4_Witness ==
    \E i \in Evaluations :
        log[i].body.debug.total_spend = USER_BUDGET /\ log[i].body.budget_ok

\* C5: savings_ok is true exactly when total_savings is at least the savings
\* target; the empty list gives three zero sums and savings_ok false.
C5_SavingsInclusive ==
    \A i \in Evaluations :
        LET r == log[i].body
        IN  /\ r.savings_ok = (r.debug.total_savings >= SAVINGS_TARGET)
            /\ r.debug.total_savings = SAVINGS_TARGET => r.savings_ok
            /\ transactions = <<>> =>
                  /\ r.debug = [total_spend |-> 0, impulse_spend |-> 0,
                                total_savings |-> 0]
                  /\ ~r.savings_ok

\* total savings exactly at the savings target
C5_Witness ==
    \E i \in Evaluations :
        log[i].body.debug.total_savings = SAVINGS_TARGET /\ log[i].body.savings_ok

\* C6: the evaluate-discipline endpoint over the reference fixture returns
\* total_spend 7700, impulse_spend 7700, total_savings 5000, budget_ok true,
\* impulse_ok false, savings_ok true and discipline_passed false.
C6_Fixture ==
    \A i \in Evaluations :
        log[i].body =
            [budget_ok         |-> TRUE,
             impulse_ok        |-> FALSE,
             savings_ok        |-> TRUE,
             discipline_passed |-> FALSE,
             debug             |-> [total_spend   |-> 7700,
                                    impulse_spend |-> 7700,
                                    total_savings |-> 5000]]

\* the endpoint has answered over the fixture
C6_Witness == transactions = fixture /\ Evaluations # {}

\* C7: the discipline_valid of every generate-proof response equals the
\* discipline_passed the evaluate-discipline endpoint returns for the same
\* data, whatever the random sample and the clock reading.
C7_ValidEchoesPassed ==
    \A i \in Proofs : \A j \in Evaluations :
        log[i].body.discipline_valid = log[j].body.discipline_passed

\* a proof and an evaluation of data that passes the budget check and fails
\* the discipline
C7_Witness ==
    \E i \in Proofs : \E j \in Evaluations :
        /\ log[j].body.budget_ok
        /\ ~log[j].body.discipline_passed
        /\ ~log[i].body.discipline_valid

\* C8 as stated: two generate_proof calls on an identical result always
\* differ in proof_id and in timestamp.
C8_AlwaysDiffer ==
    \A i \in Proofs : \A j \in Proofs :
        i # j => /\ log[i].body.proof_id # log[j].body.proof_id
                 /\ log[i].body.timestamp # log[j].body.timestamp

\* C8 amended: two generate_proof calls on an identical result return the
\* same fields and the same discipline_valid; their proof_id values differ
\* exactly when the first four random bytes differ, and their timestamps
\* differ exactly when the clock readings differ.
C8_DifferWithEnvironment ==
    \A i \in Proofs : \A j \in Proofs :
        LET p == log[i].body
            q == log[j].body
        IN  /\ DOMAIN p = DOMAIN q
            /\ p.discipline_valid = q.discipline_valid
            /\ (p.proof_id # q.proof_id) =
                  (SubSeq(urandom(log[i].env[1]), 1, 4)
                      # SubSeq(urandom(log[j].env[1]), 1, 4))
            /\ (p.timestamp # q.timestamp) = (log[i].env[2] # log[j].env[2])

\* two proofs whose clock readings differ within the same second
C8_Witness ==
    \E i \in Proofs : \E j \in Proofs :
        /\ log[i].env[2] # log[j].env[2]
        /\ utcnow(log[i].env[2]).second = utcnow(log[j].env[2]).second
        /\ log[i].body.timestamp # log[j].body.timestamp

\* C9: every proof_id is "0x" followed by exactly 8 characters out of 0-9
\* and uppercase A-F; the same holds of the two characters any byte value
\* is formatted to.
C9_ProofIdPattern ==
    /\ \A i \in Proofs :
          LET id == log[i].body.proof_id
          IN  /\ Len(id) = 10
              /\ id[1] = "0"
              /\ id[2] = "x"
              /\ \A j \in 3..10 : id[j] \in UpperHexDigits
    /\ Proofs # {} =>
          \A b \in 0..255 :
              LET s == upper(hex(<<b>>))
              IN  Len(s) = 2 /\ s[1] \in UpperHexDigits /\ s[2] \in UpperHexDigits

\* a proof whose identifier holds a letter
C9_Witness ==
    \E i \in Proofs : \E j \in 3..10 :
        log[i].body.proof_id[j] \in {"A", "B", "C", "D", "E", "F"}

\* C10: whatever requests have been served, the transaction list and the
\* four parameters are as at start-up and all evaluate-discipline responses
\* are equal.
C10_NoStateChange ==
    /\ transactions = fixture
    /\ config = mock_data
    /\ \A i \in Evaluations : \A j \in Evaluations : log[i].body = log[j].body

\* two evaluate-discipline requests served one after the other
C10_Witness == Cardinality(Evaluations) >= 2

====
